---- MODULE Spec2Model ----
(***************************************************************************)
(* Model of scripts/auth-proxy.py: the per-connection handler             *)
(* handle_client, the relay loop forward_data and the pure helpers they    *)
(* use.  Byte strings are sequences of integers 0..255, Python str values  *)
(* are sequences of code points, None/Some(x) is a sequence of length 0/1. *)
(***************************************************************************)
EXTENDS Integers, Sequences, FiniteSets, TLC

(***************************************************************************)
(* Bounds of the model (not program constants).                            *)
(***************************************************************************)
\* most header lines (after the request line) in an enumerated request
MaxHeaders == 2
\* most bytes the client sends after the request terminator
MaxClientData == 2
\* most bytes the upstream sends after the response head
MaxUpData == 2
\* most bytes a failing sendall has written before it raised
MaxPartial == 1
\* most bytes the network hands to one recv
MaxChunk == 2
\* most connections the accept loop accepts
MaxConns == 3

(***************************************************************************)
(* Program constants.                                                      *)
(***************************************************************************)
\* recv(4096): the size of one chunk
BufSize == 4096

\* b"\r\n"
CRLF == <<13, 10>>
\* b"\r\n\r\n"
Terminator == <<13, 10, 13, 10>>
\* "CONNECT"
StrCONNECT == <<67, 79, 78, 78, 69, 67, 84>>
\* "proxy-authorization:"
StrProxyAuthLower ==
    <<112, 114, 111, 120, 121, 45, 97, 117, 116, 104, 111, 114, 105, 122,
      97, 116, 105, 111, 110, 58>>
\* "Proxy-Authorization: "
StrProxyAuthHdr ==
    <<80, 114, 111, 120, 121, 45, 65, 117, 116, 104, 111, 114, 105, 122,
      97, 116, 105, 111, 110, 58, 32>>
\* "Basic "
StrBasic == <<66, 97, 115, 105, 99, 32>>
\* b"200"
Str200 == <<50, 48, 48>>
\* the base64 alphabet A-Z a-z 0-9 + /
B64Alphabet ==
    <<65, 66, 67, 68, 69, 70, 71, 72, 73, 74, 75, 76, 77, 78, 79, 80, 81,
      82, 83, 84, 85, 86, 87, 88, 89, 90, 97, 98, 99, 100, 101, 102, 103,
      104, 105, 106, 107, 108, 109, 110, 111, 112, 113, 114, 115, 116,
      117, 118, 119, 120, 121, 122, 48, 49, 50, 51, 52, 53, 54, 55, 56,
      57, 43, 47>>

(***************************************************************************)
(* Optional values and sequence helpers (Python built-ins).                *)
(***************************************************************************)
None == <<>>
Some(x) == <<x>>

Min(a, b) == IF a <= b THEN a ELSE b

\* s[i:] for a 0-based i, 0 <= i
DropFirst(s, i) == IF i >= Len(s) THEN <<>> ELSE SubSeq(s, i + 1, Len(s))
\* s[:i] for a 0-based i, 0 <= i
TakeFirst(s, i) == SubSeq(s, 1, Min(i, Len(s)))

\* str.startswith / bytes.startswith
StartsWith(s, p) == Len(p) <= Len(s) /\ SubSeq(s, 1, Len(p)) = p

\* p is a prefix of s (a name for the claims)
IsPrefix(p, s) == StartsWith(s, p)

\* s.find(p): the 0-based index of the first occurrence of p, or -1
Find(s, p) ==
    LET hits == {i \in 0..(Len(s) - Len(p)) : SubSeq(s, i + 1, i + Len(p)) = p}
    IN IF hits = {} THEN -1 ELSE CHOOSE i \in hits : \A j \in hits : i <= j

\* p in s
Contains(s, p) == Find(s, p) >= 0

\* s.split(sep): left to right, non-overlapping; always at least one piece
RECURSIVE Split(_, _)
Split(s, sep) ==
    LET i == Find(s, sep)
    IN IF i < 0 THEN <<s>>
       ELSE <<TakeFirst(s, i)>> \o Split(DropFirst(s, i + Len(sep)), sep)

\* sep.join(parts)
RECURSIVE Join(_, _)
Join(parts, sep) ==
    IF Len(parts) = 0 THEN <<>>
    ELSE IF Len(parts) = 1 THEN parts[1]
    ELSE parts[1] \o sep \o Join(Tail(parts), sep)

\* str.lower() of one code point (the model's code points are ASCII or U+FFFD)
LowerChar(c) == IF c >= 65 /\ c <= 90 THEN c + 32 ELSE c
Lower(s) == [i \in 1..Len(s) |-> LowerChar(s[i])]

(***************************************************************************)
(* bytes.decode('utf-8', errors='replace') and str.encode().  The model's  *)
(* bytes are ASCII or one of 0xF8..0xFF; such a byte is never part of a    *)
(* valid UTF-8 sequence and decodes to one U+FFFD each.                    *)
(***************************************************************************)
DecodeByte(b) == IF b < 128 THEN b ELSE 65533
Utf8DecodeReplace(bs) == [i \in 1..Len(bs) |-> DecodeByte(bs[i])]

EncodeChar(c) ==
    IF c < 128 THEN <<c>>
    ELSE IF c < 2048 THEN <<192 + (c \div 64), 128 + (c % 64)>>
    ELSE <<224 + (c \div 4096), 128 + ((c \div 64) % 64), 128 + (c % 64)>>
RECURSIVE Utf8Encode(_)
Utf8Encode(s) ==
    IF Len(s) = 0 THEN <<>> ELSE EncodeChar(s[1]) \o Utf8Encode(Tail(s))

(***************************************************************************)
(* base64.b64encode                                                        *)
(***************************************************************************)
B64Char(v) == B64Alphabet[v + 1]
RECURSIVE B64Encode(_)
B64Encode(bs) ==
    IF Len(bs) = 0 THEN <<>>
    ELSE IF Len(bs) = 1 THEN
        <<B64Char(bs[1] \div 4), B64Char((bs[1] % 4) * 16), 61, 61>>
    ELSE IF Len(bs) = 2 THEN
        <<B64Char(bs[1] \div 4),
          B64Char((bs[1] % 4) * 16 + (bs[2] \div 16)),
          B64Char((bs[2] % 16) * 4), 61>>
    ELSE
        <<B64Char(bs[1] \div 4),
          B64Char((bs[1] % 4) * 16 + (bs[2] \div 16)),
          B64Char((bs[2] % 16) * 4 + (bs[3] \div 64)),
          B64Char(bs[3] % 64)>> \o B64Encode(DropFirst(bs, 3))

(***************************************************************************)
(* create_auth_header(username, password): None, or Some(str).  username   *)
(* and password are optional strs; "not x" is true of None and of "".      *)
(***************************************************************************)
Falsy(opt) == opt = None \/ opt[1] = <<>>
create_auth_header(username, password) ==
    IF Falsy(username) \/ Falsy(password) THEN None
    ELSE LET credentials == username[1] \o <<58>> \o password[1]
             encoded == B64Encode(Utf8Encode(credentials))
         IN Some(StrBasic \o encoded)

(***************************************************************************)
(* urllib.parse.urlparse on a proxy URL, and parse_proxy_url.  The model's *)
(* URLs have no path, query or fragment and no bracketed host, so the      *)
(* netloc is everything after "://".                                       *)
(***************************************************************************)
\* s.rfind(p): the 0-based index of the last occurrence of p, or -1
FindLast(s, p) ==
    LET hits == {i \in 0..(Len(s) - Len(p)) : SubSeq(s, i + 1, i + Len(p)) = p}
    IN IF hits = {} THEN -1 ELSE CHOOSE i \in hits : \A j \in hits : i >= j

\* int(s) for a str of ASCII digits
RECURSIVE ParseInt(_)
ParseInt(s) ==
    IF Len(s) = 0 THEN 0
    ELSE ParseInt(SubSeq(s, 1, Len(s) - 1)) * 10 + (s[Len(s)] - 48)
IsDigits(s) == s # <<>> /\ \A i \in 1..Len(s) : s[i] >= 48 /\ s[i] <= 57

\* parsed.netloc: what follows "scheme://"; "" for a URL without "://"
Netloc(url) ==
    LET i == Find(url, <<58, 47, 47>>)
    IN IF i < 1 THEN <<>> ELSE DropFirst(url, i + 3)
\* netloc.rpartition('@'): the userinfo (None without '@') and the hostinfo
Userinfo(url) ==
    LET at == FindLast(Netloc(url), <<64>>)
    IN IF at < 0 THEN None ELSE Some(TakeFirst(Netloc(url), at))
Hostinfo(url) == DropFirst(Netloc(url), FindLast(Netloc(url), <<64>>) + 1)
\* parsed.username: userinfo.partition(':')[0]
UrlUsername(url) ==
    IF Userinfo(url) = None THEN None
    ELSE LET u == Userinfo(url)[1]
             c == Find(u, <<58>>)
         IN Some(IF c < 0 THEN u ELSE TakeFirst(u, c))
\* parsed.password: userinfo.partition(':')[2], None without ':'
UrlPassword(url) ==
    IF Userinfo(url) = None THEN None
    ELSE LET u == Userinfo(url)[1]
             c == Find(u, <<58>>)
         IN IF c < 0 THEN None ELSE Some(DropFirst(u, c + 1))
\* parsed.hostname: hostinfo.partition(':')[0] in lower case, None when empty
UrlHostname(url) ==
    LET h == Hostinfo(url)
        c == Find(h, <<58>>)
        name == IF c < 0 THEN h ELSE TakeFirst(h, c)
    IN IF name = <<>> THEN None ELSE Some(Lower(name))
\* the port text: hostinfo.partition(':')[2], None when absent or empty
UrlPortText(url) ==
    LET h == Hostinfo(url)
        c == Find(h, <<58>>)
    IN IF c < 0 \/ DropFirst(h, c + 1) = <<>> THEN None
       ELSE Some(DropFirst(h, c + 1))
\* parsed.port: None, or the port number
UrlPort(url) ==
    IF UrlPortText(url) = None THEN None ELSE Some(ParseInt(UrlPortText(url)[1]))
\* urlparse raises ValueError (Invalid IPv6 URL) for an unmatched bracket;
\* parsed.port raises ValueError for a port that is not a number in 0..65535
UrlRaises(url) ==
    \/ Contains(Netloc(url), <<91>>) /\ ~Contains(Netloc(url), <<93>>)
    \/ Contains(Netloc(url), <<93>>) /\ ~Contains(Netloc(url), <<91>>)
    \/ /\ UrlPortText(url) # None
       /\ \/ ~IsDigits(UrlPortText(url)[1])
          \/ ParseInt(UrlPortText(url)[1]) > 65535

\* parse_proxy_url(url) for a url on which it does not raise: None, or
\* Some(the dict)
parse_proxy_url(url) ==
    IF url = <<>> THEN None
    ELSE Some([host |-> UrlHostname(url),
               port |-> IF UrlPort(url) = None \/ UrlPort(url) = Some(0)
                        THEN 3128 ELSE UrlPort(url)[1],
               username |-> UrlUsername(url),
               password |-> UrlPassword(url)])

(***************************************************************************)
(* The parse of lines 73-78 and the rewrite of lines 89-101 / 128-139.     *)
(***************************************************************************)
header_end(request) == Find(request, Terminator)
headers(request) == Utf8DecodeReplace(TakeFirst(request, header_end(request)))
\* body = request[header_end + 4:]
ParseBody(request) == DropFirst(request, header_end(request) + 4)
\* lines = headers.split("\r\n")
ParseLines(request) == Split(headers(request), CRLF)

\* a match that forgets line.lower()
IsProxyAuthLineCaseSensitive(line) ==
    StartsWith(line, StrProxyAuthLower) \/ StartsWith(line, StrProxyAuthHdr)

\* line.lower().startswith("proxy-authorization:")
IsProxyAuthLine(line) == StartsWith(Lower(line), StrProxyAuthLower)

\* the loop of lines 92-95 / 130-133: the lines kept, in order
RECURSIVE StripProxyAuth(_)
StripProxyAuth(ls) ==
    IF Len(ls) = 0 THEN <<>>
    ELSE (IF IsProxyAuthLine(ls[1]) THEN <<>> ELSE <<ls[1]>>)
         \o StripProxyAuth(Tail(ls))

\* first_line.startswith("CONNECT")
IsConnect(first_line) == StartsWith(first_line, StrCONNECT)

\* new_headers with the credential inserted at index 1
new_headers(lines, auth_header) ==
    <<lines[1]>>
    \o (IF auth_header # None
        THEN <<StrProxyAuthHdr \o auth_header[1]>> ELSE <<>>)
    \o StripProxyAuth(Tail(lines))

\* new_request.encode() + body
new_request(lines, body, auth_header) ==
    Utf8Encode(Join(new_headers(lines, auth_header), CRLF) \o Terminator)
    \o body

\* a loop condition that stops at the first CRLF
HeadCompleteAtFirstCRLF(bytes) == Contains(bytes, CRLF)

\* the loop conditions of lines 65 and 105: b"\r\n\r\n" in the bytes so far
HeadComplete(bytes) == Contains(bytes, Terminator)

\* b"200" in response.split(b"\r\n")[0]
StatusOK(response) == Contains(Split(response, CRLF)[1], Str200)

(***************************************************************************)
(* Inputs: the byte streams the two peers send, and the upstream target.   *)
(***************************************************************************)
\* CONNECT h:1 HTTP/1.1
LineConnect ==
    <<67, 79, 78, 78, 69, 67, 84, 32, 104, 58, 49, 32, 72, 84, 84, 80,
     47, 49, 46, 49>>

\* GET http://h/ HTTP/1.1
LineGet ==
    <<71, 69, 84, 32, 104, 116, 116, 112, 58, 47, 47, 104, 47, 32, 72,
     84, 84, 80, 47, 49, 46, 49>>

\* CONNECTED h:1 HTTP/1.1
LineConnected ==
    <<67, 79, 78, 78, 69, 67, 84, 69, 68, 32, 104, 58, 49, 32, 72, 84,
     84, 80, 47, 49, 46, 49>>

\* GET http://h/<0xFF> HTTP/1.1
LineGetFF ==
    <<71, 69, 84, 32, 104, 116, 116, 112, 58, 47, 47, 104, 47, 255,
     32, 72, 84, 84, 80, 47, 49, 46, 49>>

\* Host: h
HdrHost ==
    <<72, 111, 115, 116, 58, 32, 104>>

\* Proxy-Authorization: x
HdrAuthClient ==
    <<80, 114, 111, 120, 121, 45, 65, 117, 116, 104, 111, 114, 105,
     122, 97, 116, 105, 111, 110, 58, 32, 120>>

\* PROXY-AUTHORIZATION:y
HdrAuthUpper ==
    <<80, 82, 79, 88, 89, 45, 65, 85, 84, 72, 79, 82, 73, 90, 65, 84,
     73, 79, 78, 58, 121>>

\* X: <0xFF>
HdrLatin ==
    <<88, 58, 32, 255>>

\* HTTP/1.1 200 OK\r\n\r\n
Resp200 ==
    <<72, 84, 84, 80, 47, 49, 46, 49, 32, 50, 48, 48, 32, 79, 75, 13,
     10, 13, 10>>

\* HTTP/1.1 407 No\r\n\r\n
Resp407 ==
    <<72, 84, 84, 80, 47, 49, 46, 49, 32, 52, 48, 55, 32, 78, 111, 13,
     10, 13, 10>>

\* HTTP/1.1 407 t=200\r\n\r\n
Resp407With200 ==
    <<72, 84, 84, 80, 47, 49, 46, 49, 32, 52, 48, 55, 32, 116, 61, 50,
     48, 48, 13, 10, 13, 10>>

\* HTTP/1.1 403 No\r\nX: 200\r\n\r\n
Resp403Hdr200 ==
    <<72, 84, 84, 80, 47, 49, 46, 49, 32, 52, 48, 51, 32, 78, 111, 13,
     10, 88, 58, 32, 50, 48, 48, 13, 10, 13, 10>>

RequestLines == {LineConnect, LineGet, LineConnected, LineGetFF, <<>>}
HeaderLines == {HdrHost, HdrAuthClient, HdrAuthUpper, HdrLatin}
HeaderLists == UNION {[1..k -> HeaderLines] : k \in 0..MaxHeaders}
Responses == {Resp200, Resp407, Resp407With200, Resp403Hdr200}

\* n distinct bytes: "ab.." from the client, "AB.." from the upstream
ClientData(n) == [i \in 1..n |-> 96 + i]
UpData(n) == [i \in 1..n |-> 64 + i]

MakeRequest(line, hdrs, extra) ==
    Join(<<line>> \o hdrs, CRLF) \o Terminator \o extra

\* the result of parse_proxy_url, as main hands it to every handler
Target(username, password) ==
    [host |-> Some(<<104>>), port |-> 3128,
     username |-> username, password |-> password]
Targets ==
    {Target(None, None), Target(Some(<<117>>), Some(<<112>>)),
     Target(Some(<<117>>), Some(<<>>))}

\* the values the environment may give HTTPS_PROXY and HTTP_PROXY
\* ""
UrlEmpty == <<>>
\* "h"
UrlNoScheme == <<104>>
\* "http://h"
UrlHost == <<104, 116, 116, 112, 58, 47, 47, 104>>
\* "http://u:p@h"
UrlUserPass == <<104, 116, 116, 112, 58, 47, 47, 117, 58, 112, 64, 104>>
\* "http://u:@h"
UrlUserEmptyPass == <<104, 116, 116, 112, 58, 47, 47, 117, 58, 64, 104>>
\* "http://u:p@h:8"
UrlUserPassPort == <<104, 116, 116, 112, 58, 47, 47, 117, 58, 112, 64, 104, 58, 56>>
\* "http://:8"
UrlNoHost == <<104, 116, 116, 112, 58, 47, 47, 58, 56>>
\* "http://["
UrlBracket == <<104, 116, 116, 112, 58, 47, 47, 91>>
\* "http://h:x"
UrlBadPort == <<104, 116, 116, 112, 58, 47, 47, 104, 58, 120>>
Urls ==
    {UrlEmpty, UrlNoScheme, UrlHost, UrlUserPassPort, UrlNoHost, UrlBracket,
     UrlBadPort}
\* the URLs of the targets in Targets
TargetUrls == {UrlHost, UrlUserPass, UrlUserEmptyPass}
Environ(https, http) == [HTTPS_PROXY |-> https, HTTP_PROXY |-> http]
Environs ==
    {Environ(Some(u), None) : u \in Urls}
    \cup {Environ(None, None), Environ(None, Some(UrlNoHost)),
          Environ(Some(UrlEmpty), Some(UrlNoHost))}

Socks == {"client", "upstream"}
Threads == {"t1", "t2"}
\* t1 = forward_data(client_socket, upstream), t2 = forward_data(upstream, client_socket)
Source(t) == IF t = "t1" THEN "client" ELSE "upstream"
Dest(t) == IF t = "t1" THEN "upstream" ELSE "client"

VARIABLES
    environ,        \* os.environ: HTTPS_PROXY and HTTP_PROXY, each None or Some(str)
    proxy_url,      \* main's proxy_url (None until line 162 has run)
    mainpc,         \* main's position
    listening,      \* server.listen() of line 179 has returned
    exitStatus,     \* None while the process runs, Some(status) once it has exited
    accepted,       \* number of connections server.accept() has returned
    others,         \* per connection after the first: its handler and its two sockets
    upstream_proxy, \* the shared, read-only upstream target
    inbox,          \* per socket: bytes the peer sends that recv has not returned yet
    received,       \* per socket: every byte a recv on it has returned so far
    peerClosed,     \* per socket: the peer has closed its sending side
    wire,           \* per socket: bytes written to it so far (what the peer receives)
    closeCalls,     \* per socket: number of close() calls made on it
    upCreated,      \* socket.socket() of line 81 has returned
    dials,          \* number of connect() calls made
    connected,      \* connect() of line 82 has succeeded
    request,        \* handle_client's request
    lines,          \* handle_client's lines (<<>> until line 77 has run)
    body,           \* handle_client's body
    response,       \* handle_client's response (CONNECT branch)
    chunk,          \* handle_client's chunk (plain branch)
    pc,             \* handle_client's position
    raised,         \* handle_client has caught an exception
    tpc,            \* per relay thread: forward_data's position
    data,           \* per relay thread: forward_data's data
    relayRead,      \* per relay thread: every byte its recv has returned
    relayWritten    \* per relay thread: every byte its sendall has written

mainVars == <<environ, proxy_url, mainpc, listening, exitStatus, accepted>>

vars ==
    <<mainVars, others, upstream_proxy, inbox, received, peerClosed, wire, closeCalls,
      upCreated, dials, connected, request, lines, body, response, chunk, pc, raised, tpc,
      data, relayRead, relayWritten>>

handlerLocals == <<request, lines, body, response, chunk>>

\* first_line = lines[0]
first_line == lines[1]
relayVars == <<tpc, data, relayRead, relayWritten>>
dialVars == <<upCreated, dials, connected>>
\* the state of the first connection: its handler, its sockets, its threads
connVars ==
    <<inbox, received, peerClosed, wire, closeCalls, dialVars, handlerLocals,
      pc, raised, relayVars>>

\* the connections after the first, each with a handler of its own
OtherConns == 2..MaxConns
\* a connection that has not been accepted yet
IdleConn ==
    [phase |-> "idle", raised |-> FALSE, closeCalls |-> [s \in Socks |-> 0]]

Closed(s) == closeCalls[s] > 0

\* auth_header of line 85
auth_header ==
    create_auth_header(upstream_proxy.username, upstream_proxy.password)

\* the chunks recv(4096) may return when the peer has b pending
RecvChunks(b) ==
    {TakeFirst(b, k) : k \in 1..Min(Min(BufSize, MaxChunk), Len(b))}
\* the prefixes a failing sendall(b) may have written
PartialWrites(b) == {TakeFirst(b, k) : k \in 0..Min(MaxPartial, Len(b) - 1)}

\* every enumerated request head with one body byte; a silent upstream
InitRewrite ==
    /\ upstream_proxy \in Targets
    /\ \E l \in RequestLines, h \in HeaderLists :
          inbox = [s \in Socks |->
                     IF s = "client" THEN MakeRequest(l, h, ClientData(1))
                     ELSE <<>>]

\* two requests, every response, and tunnel data in both directions
InitProtocol ==
    /\ upstream_proxy \in {Target(None, None), Target(Some(<<117>>), Some(<<112>>))}
    /\ \E l \in {LineConnect, LineGet}, n \in 0..MaxClientData,
          r \in Responses, m \in 0..MaxUpData :
          inbox = [s \in Socks |->
                     IF s = "client"
                     THEN MakeRequest(l, <<HdrAuthClient>>, ClientData(n))
                     ELSE r \o UpData(m)]

\* the state of a handler that has just been started
InitRest ==
    /\ received = [s \in Socks |-> <<>>]
    /\ peerClosed = [s \in Socks |-> FALSE]
    /\ wire = [s \in Socks |-> <<>>]
    /\ closeCalls = [s \in Socks |-> 0]
    /\ upCreated = FALSE
    /\ dials = 0
    /\ connected = FALSE
    /\ request = <<>>
    /\ lines = <<>>
    /\ body = <<>>
    /\ response = <<>>
    /\ chunk = <<>>
    /\ pc = "read_request"
    /\ raised = FALSE
    /\ tpc = [t \in Threads |-> "idle"]
    /\ data = [t \in Threads |-> <<>>]
    /\ relayRead = [t \in Threads |-> <<>>]
    /\ relayWritten = [t \in Threads |-> <<>>]

\* main has resolved the target from the environment, listens, and has
\* accepted the first connection
InitServing ==
    /\ \E url \in TargetUrls :
          /\ parse_proxy_url(url) = Some(upstream_proxy)
          /\ environ = Environ(Some(url), None)
          /\ proxy_url = Some(url)
    /\ mainpc = "accept"
    /\ listening = TRUE
    /\ exitStatus = None
    /\ accepted = 1
    /\ others = [c \in OtherConns |-> IdleConn]

Init == (InitRewrite \/ InitProtocol) /\ InitRest /\ InitServing

(***************************************************************************)
(* handle_client.  Every socket call is one step; the step that follows a  *)
(* call's failure (an exception raised by the call) is the ...Error action.*)
(* close() is taken not to raise.                                          *)
(***************************************************************************)

\* lines 65-78: one turn of the request loop: a chunk, or end-of-stream;
\* the turn that completes the head is followed by the parse
ReadRequest ==
    /\ pc = "read_request"
    /\ \/ \E c \in RecvChunks(inbox["client"]) :
             /\ inbox' = [inbox EXCEPT !["client"] = DropFirst(@, Len(c))]
             /\ received' = [received EXCEPT !["client"] = @ \o c]
             /\ request' = request \o c
             /\ IF HeadComplete(request \o c)
                THEN /\ lines' = ParseLines(request \o c)
                     /\ body' = ParseBody(request \o c)
                     /\ pc' = "dial"
                ELSE /\ pc' = "read_request"
                     /\ UNCHANGED <<lines, body>>
             /\ UNCHANGED closeCalls
       \/ /\ inbox["client"] = <<>>
          /\ peerClosed["client"]
          /\ closeCalls' = [closeCalls EXCEPT !["client"] = @ + 1]
          /\ pc' = "done"
          /\ UNCHANGED <<inbox, received, request, lines, body>>
    /\ UNCHANGED <<mainVars, others, upstream_proxy, peerClosed, wire, dialVars, response,
                   chunk, raised, relayVars>>

\* line 66 raises
ReadRequestError ==
    /\ pc = "read_request"
    /\ pc' = "except"
    /\ UNCHANGED <<mainVars, others, upstream_proxy, inbox, received, peerClosed, wire, closeCalls,
                   dialVars, handlerLocals, raised, relayVars>>

\* lines 81-82 succeed
Dial ==
    /\ pc = "dial"
    /\ upstream_proxy.host # None
    /\ upCreated' = TRUE
    /\ dials' = dials + 1
    /\ connected' = TRUE
    /\ pc' = "send_request"
    /\ UNCHANGED <<mainVars, others, upstream_proxy, inbox, received, peerClosed, wire, closeCalls,
                   handlerLocals, raised, relayVars>>

\* a failed dial that is tried again
DialErrorRetry ==
    /\ pc = "dial"
    /\ dials < 3
    /\ upCreated' = TRUE
    /\ dials' = dials + 1
    /\ pc' = "dial"
    /\ UNCHANGED <<mainVars, others, upstream_proxy, inbox, received, peerClosed, wire, closeCalls,
                   connected, handlerLocals, raised, relayVars>>

\* line 81 raises (no socket), or line 82 raises (the dial fails)
DialError ==
    /\ pc = "dial"
    /\ \/ /\ upCreated' = FALSE
          /\ dials' = dials
       \/ /\ upCreated' = TRUE
          /\ dials' = dials + 1
    /\ pc' = "except"
    /\ UNCHANGED <<mainVars, others, upstream_proxy, inbox, received, peerClosed, wire, closeCalls,
                   connected, handlerLocals, raised, relayVars>>

\* a dispatch that takes the other branch
SendRequestSwapsBranches ==
    /\ pc = "send_request"
    /\ wire' = [wire EXCEPT
                  !["upstream"] = @ \o new_request(lines, body, auth_header)]
    /\ pc' = IF IsConnect(first_line) THEN "forward_recv" ELSE "read_response"
    /\ UNCHANGED <<mainVars, others, upstream_proxy, inbox, received, peerClosed, closeCalls, dialVars,
                   handlerLocals, raised, relayVars>>

\* lines 85-101 and 128-139: rewrite, and upstream.sendall succeeds
SendRequest ==
    /\ pc = "send_request"
    /\ wire' = [wire EXCEPT
                  !["upstream"] = @ \o new_request(lines, body, auth_header)]
    /\ pc' = IF IsConnect(first_line) THEN "read_response" ELSE "forward_recv"
    /\ UNCHANGED <<mainVars, others, upstream_proxy, inbox, received, peerClosed, closeCalls, dialVars,
                   handlerLocals, raised, relayVars>>

\* line 101 / 139 raises after a partial write
SendRequestError ==
    /\ pc = "send_request"
    /\ \E w \in PartialWrites(new_request(lines, body, auth_header)) :
          wire' = [wire EXCEPT !["upstream"] = @ \o w]
    /\ pc' = "except"
    /\ UNCHANGED <<mainVars, others, upstream_proxy, inbox, received, peerClosed, closeCalls, dialVars,
                   handlerLocals, raised, relayVars>>

\* a response loop that starts t1 as soon as the head is complete
ReadResponseStartsRelay ==
    /\ pc = "read_response"
    /\ \E c \in RecvChunks(inbox["upstream"]) :
          /\ inbox' = [inbox EXCEPT !["upstream"] = DropFirst(@, Len(c))]
          /\ received' = [received EXCEPT !["upstream"] = @ \o c]
          /\ response' = response \o c
          /\ IF HeadComplete(response \o c)
             THEN /\ pc' = "send_response"
                  /\ tpc' = [tpc EXCEPT !["t1"] = "recv"]
             ELSE /\ pc' = "read_response"
                  /\ UNCHANGED tpc
    /\ UNCHANGED <<mainVars, others, upstream_proxy, peerClosed, wire, closeCalls, dialVars,
                   request, lines, body, chunk, raised, data, relayRead,
                   relayWritten>>

\* lines 105-109: one turn of the response loop: a chunk, or end-of-stream
ReadResponse ==
    /\ pc = "read_response"
    /\ \/ \E c \in RecvChunks(inbox["upstream"]) :
             /\ inbox' = [inbox EXCEPT !["upstream"] = DropFirst(@, Len(c))]
             /\ received' = [received EXCEPT !["upstream"] = @ \o c]
             /\ response' = response \o c
             /\ pc' = IF HeadComplete(response \o c)
                      THEN "send_response" ELSE "read_response"
       \/ /\ inbox["upstream"] = <<>>
          /\ peerClosed["upstream"]
          /\ pc' = "send_response"
          /\ UNCHANGED <<inbox, received, response>>
    /\ UNCHANGED <<mainVars, others, upstream_proxy, peerClosed, wire, closeCalls, dialVars,
                   request, lines, body, chunk, raised, relayVars>>

\* line 106 raises
ReadResponseError ==
    /\ pc = "read_response"
    /\ pc' = "except"
    /\ UNCHANGED <<mainVars, others, upstream_proxy, inbox, received, peerClosed, wire, closeCalls,
                   dialVars, handlerLocals, raised, relayVars>>

\* a hand-over that forwards the response head only
SendResponseHeadOnly ==
    /\ pc = "send_response"
    /\ wire' = [wire EXCEPT !["client"] =
                  @ \o TakeFirst(response, Find(response, Terminator) + 4)]
    /\ pc' = "check_status"
    /\ UNCHANGED <<mainVars, others, upstream_proxy, inbox, received, peerClosed, closeCalls, dialVars,
                   handlerLocals, raised, relayVars>>

\* line 112: client_socket.sendall(response) succeeds
SendResponse ==
    /\ pc = "send_response"
    /\ wire' = [wire EXCEPT !["client"] = @ \o response]
    /\ pc' = "check_status"
    /\ UNCHANGED <<mainVars, others, upstream_proxy, inbox, received, peerClosed, closeCalls, dialVars,
                   handlerLocals, raised, relayVars>>

\* line 112 raises after a partial write
SendResponseError ==
    /\ pc = "send_response"
    /\ \E w \in PartialWrites(response) :
          wire' = [wire EXCEPT !["client"] = @ \o w]
    /\ pc' = "except"
    /\ UNCHANGED <<mainVars, others, upstream_proxy, inbox, received, peerClosed, closeCalls, dialVars,
                   handlerLocals, raised, relayVars>>

\* lines 115-119: the status check; on success t1 is created and started
CheckStatus ==
    /\ pc = "check_status"
    /\ IF StatusOK(response)
       THEN /\ tpc' = [tpc EXCEPT !["t1"] = "recv"]
            /\ pc' = "start_t2"
       ELSE /\ pc' = "close_client"
            /\ UNCHANGED tpc
    /\ UNCHANGED <<mainVars, others, upstream_proxy, inbox, received, peerClosed, wire, closeCalls,
                   dialVars, handlerLocals, raised, data, relayRead,
                   relayWritten>>

\* line 120: t2.start()
StartT2 ==
    /\ pc = "start_t2"
    /\ tpc' = [tpc EXCEPT !["t2"] = "recv"]
    /\ pc' = "join_t1"
    /\ UNCHANGED <<mainVars, others, upstream_proxy, inbox, received, peerClosed, wire, closeCalls,
                   dialVars, handlerLocals, raised, data, relayRead,
                   relayWritten>>

\* line 121: t1.join() returns
JoinT1 ==
    /\ pc = "join_t1"
    /\ tpc["t1"] = "done"
    /\ pc' = "join_t2"
    /\ UNCHANGED <<mainVars, others, upstream_proxy, inbox, received, peerClosed, wire, closeCalls,
                   dialVars, handlerLocals, raised, relayVars>>

\* line 122: t2.join() returns, and handle_client with it
JoinT2 ==
    /\ pc = "join_t2"
    /\ tpc["t2"] = "done"
    /\ pc' = "done"
    /\ UNCHANGED <<mainVars, others, upstream_proxy, inbox, received, peerClosed, wire, closeCalls,
                   dialVars, handlerLocals, raised, relayVars>>

\* line 124: client_socket.close()
RejectCloseClient ==
    /\ pc = "close_client"
    /\ closeCalls' = [closeCalls EXCEPT !["client"] = @ + 1]
    /\ pc' = "close_upstream"
    /\ UNCHANGED <<mainVars, others, upstream_proxy, inbox, received, peerClosed, wire, dialVars,
                   handlerLocals, raised, relayVars>>

\* line 125: upstream.close()
RejectCloseUpstream ==
    /\ pc = "close_upstream"
    /\ closeCalls' = [closeCalls EXCEPT !["upstream"] = @ + 1]
    /\ pc' = "done"
    /\ UNCHANGED <<mainVars, others, upstream_proxy, inbox, received, peerClosed, wire, dialVars,
                   handlerLocals, raised, relayVars>>

\* a plain response loop that reads the client socket
ForwardRecvFromClient ==
    /\ pc = "forward_recv"
    /\ \E c \in RecvChunks(inbox["client"]) :
          /\ inbox' = [inbox EXCEPT !["client"] = DropFirst(@, Len(c))]
          /\ received' = [received EXCEPT !["client"] = @ \o c]
          /\ chunk' = c
          /\ pc' = "forward_send"
    /\ UNCHANGED <<mainVars, others, upstream_proxy, peerClosed, wire, closeCalls, dialVars,
                   request, lines, body, response, raised, relayVars>>

\* lines 143-145: one recv of the plain response loop: a chunk, or end-of-stream
ForwardRecv ==
    /\ pc = "forward_recv"
    /\ \/ \E c \in RecvChunks(inbox["upstream"]) :
             /\ inbox' = [inbox EXCEPT !["upstream"] = DropFirst(@, Len(c))]
             /\ received' = [received EXCEPT !["upstream"] = @ \o c]
             /\ chunk' = c
             /\ pc' = "forward_send"
       \/ /\ inbox["upstream"] = <<>>
          /\ peerClosed["upstream"]
          /\ chunk' = <<>>
          /\ pc' = "plain_close_client"
          /\ UNCHANGED <<inbox, received>>
    /\ UNCHANGED <<mainVars, others, upstream_proxy, peerClosed, wire, closeCalls, dialVars,
                   request, lines, body, response, raised, relayVars>>

\* line 143 raises
ForwardRecvError ==
    /\ pc = "forward_recv"
    /\ pc' = "except"
    /\ UNCHANGED <<mainVars, others, upstream_proxy, inbox, received, peerClosed, wire, closeCalls,
                   dialVars, handlerLocals, raised, relayVars>>

\* a plain forward that loses the first byte of every chunk
ForwardSendSkipsByte ==
    /\ pc = "forward_send"
    /\ wire' = [wire EXCEPT !["client"] = @ \o Tail(chunk)]
    /\ pc' = "forward_recv"
    /\ UNCHANGED <<mainVars, others, upstream_proxy, inbox, received, peerClosed, closeCalls, dialVars,
                   handlerLocals, raised, relayVars>>

\* line 146: client_socket.sendall(chunk) succeeds
ForwardSend ==
    /\ pc = "forward_send"
    /\ wire' = [wire EXCEPT !["client"] = @ \o chunk]
    /\ pc' = "forward_recv"
    /\ UNCHANGED <<mainVars, others, upstream_proxy, inbox, received, peerClosed, closeCalls, dialVars,
                   handlerLocals, raised, relayVars>>

\* line 146 raises after a partial write
ForwardSendError ==
    /\ pc = "forward_send"
    /\ \E w \in PartialWrites(chunk) :
          wire' = [wire EXCEPT !["client"] = @ \o w]
    /\ pc' = "except"
    /\ UNCHANGED <<mainVars, others, upstream_proxy, inbox, received, peerClosed, closeCalls, dialVars,
                   handlerLocals, raised, relayVars>>

\* line 148: client_socket.close()
PlainCloseClient ==
    /\ pc = "plain_close_client"
    /\ closeCalls' = [closeCalls EXCEPT !["client"] = @ + 1]
    /\ pc' = "plain_close_upstream"
    /\ UNCHANGED <<mainVars, others, upstream_proxy, inbox, received, peerClosed, wire, dialVars,
                   handlerLocals, raised, relayVars>>

\* line 149: upstream.close()
PlainCloseUpstream ==
    /\ pc = "plain_close_upstream"
    /\ closeCalls' = [closeCalls EXCEPT !["upstream"] = @ + 1]
    /\ pc' = "done"
    /\ UNCHANGED <<mainVars, others, upstream_proxy, inbox, received, peerClosed, wire, dialVars,
                   handlerLocals, raised, relayVars>>

\* an exception handler that only logs
ExceptKeepsClient ==
    /\ pc = "except"
    /\ raised' = TRUE
    /\ pc' = "done"
    /\ UNCHANGED <<mainVars, others, upstream_proxy, inbox, received, peerClosed, wire, closeCalls,
                   dialVars, handlerLocals, relayVars>>

\* lines 151-156: the handler of every exception
Except ==
    /\ pc = "except"
    /\ raised' = TRUE
    /\ closeCalls' = [closeCalls EXCEPT !["client"] = @ + 1]
    /\ pc' = "done"
    /\ UNCHANGED <<mainVars, others, upstream_proxy, inbox, received, peerClosed, wire, dialVars,
                   handlerLocals, relayVars>>

(***************************************************************************)
(* forward_data(source, dest), run by t1 and t2.  A recv called on a       *)
(* socket object that is already closed raises at once; a recv that is     *)
(* already blocked when the other thread closes the socket stays blocked   *)
(* until the peer sends, closes or resets (close(2) on Linux), or is       *)
(* woken with an error where the platform does that: LoopRecvError.        *)
(***************************************************************************)

\* line 47: source.recv(4096) is called
LoopRecvCall(t) ==
    /\ tpc[t] = "recv"
    /\ tpc' = [tpc EXCEPT ![t] = IF Closed(Source(t))
                                 THEN "close_source" ELSE "in_recv"]
    /\ UNCHANGED <<mainVars, others, upstream_proxy, inbox, received, peerClosed, wire, closeCalls,
                   dialVars, handlerLocals, pc, raised, data, relayRead,
                   relayWritten>>

\* lines 47-49: the blocked recv returns a chunk, or b"" at end-of-stream
LoopRecvReturn(t) ==
    /\ tpc[t] = "in_recv"
    /\ \/ \E c \in RecvChunks(inbox[Source(t)]) :
             /\ inbox' = [inbox EXCEPT ![Source(t)] = DropFirst(@, Len(c))]
             /\ received' = [received EXCEPT ![Source(t)] = @ \o c]
             /\ data' = [data EXCEPT ![t] = c]
             /\ relayRead' = [relayRead EXCEPT ![t] = @ \o c]
             /\ tpc' = [tpc EXCEPT ![t] = "send"]
       \/ /\ inbox[Source(t)] = <<>>
          /\ peerClosed[Source(t)]
          /\ data' = [data EXCEPT ![t] = <<>>]
          /\ tpc' = [tpc EXCEPT ![t] = "close_source"]
          /\ UNCHANGED <<inbox, received, relayRead>>
    /\ UNCHANGED <<mainVars, others, upstream_proxy, peerClosed, wire, closeCalls, dialVars,
                   handlerLocals, pc, raised, relayWritten>>

\* line 47 raises while blocked (lines 51-52 swallow it)
LoopRecvError(t) ==
    /\ tpc[t] = "in_recv"
    /\ tpc' = [tpc EXCEPT ![t] = "close_source"]
    /\ UNCHANGED <<mainVars, others, upstream_proxy, inbox, received, peerClosed, wire, closeCalls,
                   dialVars, handlerLocals, pc, raised, data, relayRead,
                   relayWritten>>

\* a loop that reads the next chunk without having sent this one
LoopSendDropsChunk(t) ==
    /\ tpc[t] = "send"
    /\ tpc' = [tpc EXCEPT ![t] = IF Closed(Dest(t))
                                 THEN "close_source" ELSE "recv"]
    /\ UNCHANGED <<mainVars, others, upstream_proxy, inbox, received, peerClosed, wire, closeCalls,
                   dialVars, handlerLocals, pc, raised, data, relayRead,
                   relayWritten>>

\* line 50: dest.sendall(data): all of it, or an error at once when dest
\* is already closed
LoopSend(t) ==
    /\ tpc[t] = "send"
    /\ IF Closed(Dest(t))
       THEN /\ tpc' = [tpc EXCEPT ![t] = "close_source"]
            /\ UNCHANGED <<wire, relayWritten>>
       ELSE /\ wire' = [wire EXCEPT ![Dest(t)] = @ \o data[t]]
            /\ relayWritten' = [relayWritten EXCEPT ![t] = @ \o data[t]]
            /\ tpc' = [tpc EXCEPT ![t] = "recv"]
    /\ UNCHANGED <<mainVars, others, upstream_proxy, inbox, received, peerClosed, closeCalls, dialVars,
                   handlerLocals, pc, raised, data, relayRead>>

\* line 50 raises after a partial write
LoopSendError(t) ==
    /\ tpc[t] = "send"
    /\ ~Closed(Dest(t))
    /\ \E w \in PartialWrites(data[t]) :
          /\ wire' = [wire EXCEPT ![Dest(t)] = @ \o w]
          /\ relayWritten' = [relayWritten EXCEPT ![t] = @ \o w]
    /\ tpc' = [tpc EXCEPT ![t] = "close_source"]
    /\ UNCHANGED <<mainVars, others, upstream_proxy, inbox, received, peerClosed, closeCalls, dialVars,
                   handlerLocals, pc, raised, data, relayRead>>

\* line 55: source.close()
LoopCloseSource(t) ==
    /\ tpc[t] = "close_source"
    /\ closeCalls' = [closeCalls EXCEPT ![Source(t)] = @ + 1]
    /\ tpc' = [tpc EXCEPT ![t] = "close_dest"]
    /\ UNCHANGED <<mainVars, others, upstream_proxy, inbox, received, peerClosed, wire, dialVars,
                   handlerLocals, pc, raised, data, relayRead, relayWritten>>

\* line 56: dest.close(), and forward_data returns
LoopCloseDest(t) ==
    /\ tpc[t] = "close_dest"
    /\ closeCalls' = [closeCalls EXCEPT ![Dest(t)] = @ + 1]
    /\ tpc' = [tpc EXCEPT ![t] = "done"]
    /\ UNCHANGED <<mainVars, others, upstream_proxy, inbox, received, peerClosed, wire, dialVars,
                   handlerLocals, pc, raised, data, relayRead, relayWritten>>

(***************************************************************************)
(* The peers.  A peer may close at any time; what it had not sent by then  *)
(* is never sent.  Only a recv observes the close, so the model lets it    *)
(* happen while a recv on the socket is pending.                           *)
(***************************************************************************)
Receiving(s) ==
    \/ s = "client" /\ pc = "read_request"
    \/ s = "upstream" /\ pc \in {"read_response", "forward_recv"}
    \/ \E t \in Threads : Source(t) = s /\ tpc[t] = "in_recv"

PeerClose(s) ==
    /\ Receiving(s)
    /\ ~peerClosed[s]
    /\ peerClosed' = [peerClosed EXCEPT ![s] = TRUE]
    /\ inbox' = [inbox EXCEPT ![s] = <<>>]
    /\ UNCHANGED <<mainVars, others, upstream_proxy, received, wire, closeCalls, dialVars, handlerLocals,
                   pc, raised, relayVars>>

(***************************************************************************)
(* main: the start-up and the accept loop.  A call that raises outside the *)
(* accept loop's try ends the process with a traceback and status 1.       *)
(***************************************************************************)

\* No target: what upstream_proxy holds before line 167 has run
NoTarget == [host |-> None, port |-> 0, username |-> None, password |-> None]

\* lines 162-165: proxy_url = HTTPS_PROXY or HTTP_PROXY; exit(1) without one
ReadEnv ==
    /\ mainpc = "start"
    /\ LET url == IF ~Falsy(environ.HTTPS_PROXY) THEN environ.HTTPS_PROXY
                  ELSE environ.HTTP_PROXY
       IN /\ proxy_url' = url
          /\ IF Falsy(url)
             THEN mainpc' = "exit" /\ exitStatus' = Some(1)
             ELSE mainpc' = "parse" /\ UNCHANGED exitStatus
    /\ UNCHANGED <<environ, listening, accepted, others, upstream_proxy, connVars>>

\* lines 167-173: upstream_proxy = parse_proxy_url(proxy_url); exit(1) on None
ParseUrl ==
    /\ mainpc = "parse"
    /\ ~UrlRaises(proxy_url[1])
    /\ IF parse_proxy_url(proxy_url[1]) = None
       THEN mainpc' = "exit" /\ exitStatus' = Some(1) /\ UNCHANGED upstream_proxy
       ELSE /\ upstream_proxy' = parse_proxy_url(proxy_url[1])[1]
            /\ mainpc' = "listen"
            /\ UNCHANGED exitStatus
    /\ UNCHANGED <<environ, proxy_url, listening, accepted, others, connVars>>

\* line 167 raises (urlparse or parsed.port): ValueError, not caught
ParseUrlError ==
    /\ mainpc = "parse"
    /\ UrlRaises(proxy_url[1])
    /\ mainpc' = "exit"
    /\ exitStatus' = Some(1)
    /\ UNCHANGED <<environ, proxy_url, listening, accepted, others,
                   upstream_proxy, connVars>>

\* lines 176-179: socket, bind, listen
Listen ==
    /\ mainpc = "listen"
    /\ listening' = TRUE
    /\ mainpc' = "accept"
    /\ UNCHANGED <<environ, proxy_url, exitStatus, accepted, others,
                   upstream_proxy, connVars>>

\* line 178 raises (the port is taken): OSError, not caught
ListenError ==
    /\ mainpc = "listen"
    /\ mainpc' = "exit"
    /\ exitStatus' = Some(1)
    /\ UNCHANGED <<environ, proxy_url, listening, accepted, others,
                   upstream_proxy, connVars>>

\* lines 186-189: accept a client and start its handler thread; the first
\* connection's peers send a tunnel or plain request and a 200 or 407
\* response, and the client one byte after its request
Accept ==
    /\ mainpc = "accept"
    /\ accepted < MaxConns
    /\ accepted' = accepted + 1
    /\ IF accepted = 0
       THEN /\ pc' = "read_request"
            /\ \E l \in {LineConnect, LineGet}, r \in {Resp200, Resp407} :
                  inbox' = [s \in Socks |->
                              IF s = "client"
                              THEN MakeRequest(l, <<>>, ClientData(1))
                              ELSE r]
            /\ UNCHANGED others
       ELSE /\ others' = [others EXCEPT ![accepted + 1].phase = "handshake"]
            /\ UNCHANGED <<pc, inbox>>
    /\ UNCHANGED <<environ, proxy_url, mainpc, listening, exitStatus,
                   upstream_proxy, received, peerClosed, wire, closeCalls,
                   dialVars, handlerLocals, raised, relayVars>>

\* lines 193-194: accept or Thread.start raises; the loop goes on
AcceptError ==
    /\ mainpc = "accept"
    /\ UNCHANGED vars

\* lines 190-192: KeyboardInterrupt ends the loop and the process
Interrupt ==
    /\ mainpc = "accept"
    /\ mainpc' = "exit"
    /\ listening' = FALSE
    /\ exitStatus' = Some(0)
    /\ UNCHANGED <<environ, proxy_url, accepted, others, upstream_proxy, connVars>>

(***************************************************************************)
(* The handlers of the connections after the first, at the grain of their  *)
(* returns: each runs handle_client on a client socket and an upstream     *)
(* socket of its own and shares only the read-only upstream_proxy.         *)
(***************************************************************************)

\* lines 67-69: the client closed before the head was complete
OtherClientGone(c) ==
    /\ others[c].phase = "handshake"
    /\ others' = [others EXCEPT ![c].phase = "returned",
                                ![c].closeCalls["client"] = @ + 1]
    /\ UNCHANGED <<mainVars, upstream_proxy, connVars>>

\* a handler whose exception handler closes the sockets of every connection
OtherFailClosesAll(c) ==
    /\ others[c].phase = "handshake"
    /\ others' = [d \in OtherConns |->
                    IF d = c
                    THEN [others[d] EXCEPT !.phase = "returned", !.raised = TRUE,
                                           !.closeCalls["client"] = @ + 1]
                    ELSE [others[d] EXCEPT !.closeCalls["client"] = @ + 1]]
    /\ closeCalls' = [closeCalls EXCEPT !["client"] = @ + 1]
    /\ UNCHANGED <<mainVars, upstream_proxy, inbox, received, peerClosed, wire,
                   dialVars, handlerLocals, pc, raised, relayVars>>

\* lines 151-156: a dial failure or an I/O error of the handshake
OtherFail(c) ==
    /\ others[c].phase = "handshake"
    /\ others' = [others EXCEPT ![c].phase = "returned",
                                ![c].raised = TRUE,
                                ![c].closeCalls["client"] = @ + 1]
    /\ UNCHANGED <<mainVars, upstream_proxy, connVars>>

\* lines 124-125 / 148-149: a rejected tunnel, or a plain forward, ends
OtherFinish(c) ==
    /\ others[c].phase = "handshake"
    /\ others' = [others EXCEPT ![c].phase = "returned",
                                ![c].closeCalls["client"] = @ + 1,
                                ![c].closeCalls["upstream"] = @ + 1]
    /\ UNCHANGED <<mainVars, upstream_proxy, connVars>>

\* lines 117-120: the tunnel is accepted and both loops are started
OtherRelayStart(c) ==
    /\ others[c].phase = "handshake"
    /\ others' = [others EXCEPT ![c].phase = "relay"]
    /\ UNCHANGED <<mainVars, upstream_proxy, connVars>>

\* lines 53-58 and 121-122: both loops have ended (end-of-stream or an I/O
\* error), each closing both sockets, and the joins return
OtherRelayEnd(c) ==
    /\ others[c].phase = "relay"
    /\ others' = [others EXCEPT ![c].phase = "returned",
                                ![c].closeCalls["client"] = @ + 2,
                                ![c].closeCalls["upstream"] = @ + 2]
    /\ UNCHANGED <<mainVars, upstream_proxy, connVars>>

MainStep ==
    \/ ReadEnv \/ ParseUrl \/ ParseUrlError \/ Listen \/ ListenError
    \/ Accept \/ AcceptError \/ Interrupt

OtherStep(c) ==
    \/ OtherClientGone(c) \/ OtherFail(c) \/ OtherFinish(c)
    \/ OtherRelayStart(c) \/ OtherRelayEnd(c)

HandlerStep ==
    \/ ReadRequest \/ Dial \/ SendRequest \/ ReadResponse \/ SendResponse
    \/ CheckStatus \/ StartT2 \/ JoinT1 \/ JoinT2
    \/ RejectCloseClient \/ RejectCloseUpstream
    \/ ForwardRecv \/ ForwardSend \/ PlainCloseClient \/ PlainCloseUpstream
    \/ Except

HandlerError ==
    \/ ReadRequestError \/ DialError \/ SendRequestError
    \/ ReadResponseError \/ SendResponseError
    \/ ForwardRecvError \/ ForwardSendError

LoopStep(t) ==
    \/ LoopRecvCall(t) \/ LoopRecvReturn(t) \/ LoopSend(t)
    \/ LoopCloseSource(t) \/ LoopCloseDest(t)

LoopError(t) == LoopRecvError(t) \/ LoopSendError(t)

Next ==
    \/ HandlerStep
    \/ HandlerError
    \/ \E t \in Threads : LoopStep(t) \/ LoopError(t)
    \/ \E s \in Socks : PeerClose(s)

Spec == Init /\ [][Next]_vars

\* a tunnel and a plain request, answered with 200 or 407, one byte of
\* tunnel data each way
InitLive ==
    /\ upstream_proxy = Target(Some(<<117>>), Some(<<112>>))
    /\ \E l \in {LineConnect, LineGet}, r \in {Resp200, Resp407} :
          inbox = [s \in Socks |->
                     IF s = "client"
                     THEN MakeRequest(l, <<>>, ClientData(1))
                     ELSE r \o UpData(1)]
    /\ InitRest
    /\ InitServing

\* Every thread that can take a step of its own (a call that returns, a
\* close, a join) eventually takes one; errors and the peers are not forced.
FairSpec ==
    /\ InitLive
    /\ [][Next]_vars
    /\ WF_vars(HandlerStep)
    /\ \A t \in Threads : WF_vars(LoopStep(t))

\* the process from its start: the environment holds any of the URLs, no
\* connection has been accepted
InitMain ==
    /\ environ \in Environs
    /\ proxy_url = None
    /\ mainpc = "start"
    /\ listening = FALSE
    /\ exitStatus = None
    /\ accepted = 0
    /\ others = [c \in OtherConns |-> IdleConn]
    /\ upstream_proxy = NoTarget
    /\ inbox = [s \in Socks |-> <<>>]
    /\ received = [s \in Socks |-> <<>>]
    /\ peerClosed = [s \in Socks |-> FALSE]
    /\ wire = [s \in Socks |-> <<>>]
    /\ closeCalls = [s \in Socks |-> 0]
    /\ upCreated = FALSE
    /\ dials = 0
    /\ connected = FALSE
    /\ request = <<>>
    /\ lines = <<>>
    /\ body = <<>>
    /\ response = <<>>
    /\ chunk = <<>>
    /\ pc = "idle"
    /\ raised = FALSE
    /\ tpc = [t \in Threads |-> "idle"]
    /\ data = [t \in Threads |-> <<>>]
    /\ relayRead = [t \in Threads |-> <<>>]
    /\ relayWritten = [t \in Threads |-> <<>>]

MainNext ==
    \/ MainStep
    \/ Next
    \/ \E c \in OtherConns : OtherStep(c)

MainSpec == InitMain /\ [][MainNext]_vars

(***************************************************************************)
(* Properties.                                                             *)
(***************************************************************************)

\* the request terminator is among the bytes read from the client so far
TerminatorSeen == Contains(request, Terminator)

\* C1: until the bytes accumulated from the client contain CRLF CRLF, no
\* upstream socket is created or dialed and no byte is written to either
\* socket; a handler that returns without having seen the terminator (the
\* client reached end-of-stream, or the read failed) has dialed nothing,
\* sent nothing, and has closed the client socket once.
C1_NoForwardBeforeTerminator ==
    ~TerminatorSeen =>
        /\ ~upCreated /\ dials = 0 /\ ~connected
        /\ wire["upstream"] = <<>> /\ wire["client"] = <<>>
        /\ pc \in {"read_request", "except", "done"}
        /\ \A t \in Threads : tpc[t] = "idle"
        /\ pc = "done" => closeCalls["client"] = 1

\* C1 witness: the client sent part of a head and closed; the handler returned
C1_Witness ==
    /\ pc = "done" /\ ~raised /\ ~TerminatorSeen
    /\ request # <<>> /\ peerClosed["client"]

\* handle_client has written the whole rewritten request to the upstream
RequestSent ==
    pc \in {"read_response", "send_response", "check_status", "start_t2",
            "join_t1", "join_t2", "close_client", "close_upstream",
            "forward_recv", "forward_send", "plain_close_client",
            "plain_close_upstream"}

\* the head the upstream received: its bytes before the first CRLF CRLF
UpstreamHead == TakeFirst(wire["upstream"], Find(wire["upstream"], Terminator))
\* its header lines: every line after the request line
UpstreamHeaderLines == Tail(Split(UpstreamHead, CRLF))
\* a header line named Proxy-Authorization, in any letter case
NamesProxyAuth(line) ==
    /\ Len(line) >= Len(StrProxyAuthLower)
    /\ \A i \in 1..Len(StrProxyAuthLower) :
          line[i] = StrProxyAuthLower[i] \/ line[i] + 32 = StrProxyAuthLower[i]
UpstreamAuthLines ==
    {i \in 1..Len(UpstreamHeaderLines) : NamesProxyAuth(UpstreamHeaderLines[i])}
\* the header lines of the client's request, as the client sent them
ClientHeaderLines ==
    Tail(Split(TakeFirst(request, Find(request, Terminator)), CRLF))
ClientAuthLines ==
    {i \in 1..Len(ClientHeaderLines) : NamesProxyAuth(ClientHeaderLines[i])}

\* C2: the request head the upstream receives (CONNECT or plain) holds
\* exactly one Proxy-Authorization header, "Proxy-Authorization: " followed
\* by the credential value of create_auth_header, when that value is not
\* None, and no Proxy-Authorization header at all when it is None, however
\* many such headers (in any letter case) the client sent.
C2_OnlyConfiguredCredential ==
    RequestSent =>
        /\ Contains(wire["upstream"], Terminator)
        /\ IF auth_header # None
           THEN /\ Cardinality(UpstreamAuthLines) = 1
                /\ \A i \in UpstreamAuthLines :
                      UpstreamHeaderLines[i] = StrProxyAuthHdr \o auth_header[1]
           ELSE UpstreamAuthLines = {}

\* C2 witness: the client sent two Proxy-Authorization headers, one of them
\* in upper case, a credential is configured, and the request was forwarded
C2_Witness ==
    /\ RequestSent
    /\ auth_header # None
    /\ Cardinality(ClientAuthLines) = 2
    /\ \E i \in ClientAuthLines : ClientHeaderLines[i] = HdrAuthUpper

\* the request line and the header lines of the client's head, as bytes
ClientLines == Split(TakeFirst(request, Find(request, Terminator)), CRLF)
RECURSIVE WithoutProxyAuth(_)
WithoutProxyAuth(ls) ==
    IF Len(ls) = 0 THEN <<>>
    ELSE (IF NamesProxyAuth(ls[1]) THEN <<>> ELSE <<ls[1]>>)
         \o WithoutProxyAuth(Tail(ls))
\* what C3 says the upstream receives for the client's request
ExpectedUpstreamBytes ==
    Join(<<ClientLines[1]>>
         \o (IF auth_header # None
             THEN <<StrProxyAuthHdr \o auth_header[1]>> ELSE <<>>)
         \o WithoutProxyAuth(Tail(ClientLines)), CRLF)
    \o Terminator
    \o DropFirst(request, Find(request, Terminator) + 4)

\* C3: the bytes written to the upstream for a request are the request line
\* unchanged, the injected Proxy-Authorization header (if a credential is
\* configured), every other header of the client in order and unchanged,
\* the terminator, and the buffered body bytes unchanged.
C3_ForwardedBytesUnchanged ==
    RequestSent /\ (\A t \in Threads : relayWritten[t] = <<>>) =>
        wire["upstream"] = ExpectedUpstreamBytes

\* The divergence of C3 is confined to heads with bytes that are not valid
\* UTF-8: for an ASCII head the forwarded bytes are the expected ones.
ForwardedBytesUnchangedForAsciiHeads ==
    RequestSent /\ (\A t \in Threads : relayWritten[t] = <<>>)
      /\ (\A i \in 1..Find(request, Terminator) : request[i] < 128) =>
        wire["upstream"] = ExpectedUpstreamBytes

\* the request went down the CONNECT branch and its response was dealt with
PastStatusCheck ==
    pc \in {"start_t2", "join_t1", "join_t2", "close_client", "close_upstream"}
    \/ (pc = "done" /\ ~raised /\ connected /\ IsConnect(first_line))
\* a forwarding loop has been started
RelayStarted == \E t \in Threads : tpc[t] # "idle"
\* the first line of the upstream's response, and its status code field
StatusLine == Split(response, CRLF)[1]
StatusCode ==
    LET parts == Split(StatusLine, <<32>>)
    IN IF Len(parts) >= 2 THEN parts[2] ELSE <<>>

\* C4: for a CONNECT request the forwarding loops are started if and only
\* if the status code field of the upstream's status line is 200; for any
\* other status line no loop is ever started and both sockets are closed.
C4_RelayIffStatus200 ==
    PastStatusCheck =>
        /\ RelayStarted <=> StatusCode = Str200
        /\ (pc = "done" /\ StatusCode # Str200) =>
              (Closed("client") /\ Closed("upstream") /\ ~RelayStarted)

\* C5: when the handler has returned, by whichever path, the client socket
\* has been closed exactly once, and so has the upstream socket if one was
\* created.
C5_BothClosedExactlyOnce ==
    pc = "done" =>
        /\ closeCalls["client"] = 1
        /\ upCreated => closeCalls["upstream"] = 1

\* the upstream reached end-of-stream before its response held CRLF CRLF
ResponseCutShort ==
    /\ pc \in {"send_response", "check_status", "start_t2", "join_t1",
               "join_t2", "close_client", "close_upstream"}
    /\ ~Contains(response, Terminator)

\* C6: for a CONNECT request whose upstream reaches end-of-stream before the
\* response terminator, the handler forwards none of the partial response
\* to the client and never starts the relay.
C6_PartialResponseNotForwarded ==
    ResponseCutShort => (wire["client"] = <<>> /\ ~RelayStarted)

\* the dial of lines 81-82 has failed
DialFailed == TerminatorSeen /\ ~connected /\ pc \in {"except", "done"}

\* C7: a handler dials at most once; after a failed dial it has written no
\* byte to the client or to an upstream, it only runs the exception
\* handler, and it returns with the client socket closed.
C7_DialFailureIsFinal ==
    /\ dials <= 1
    /\ DialFailed =>
          /\ wire["client"] = <<>> /\ wire["upstream"] = <<>>
          /\ ~RelayStarted
          /\ pc = "done" => (raised /\ closeCalls["client"] = 1)

\* C7 witness: connect() was called and failed, and the handler has returned
C7_Witness == DialFailed /\ dials = 1 /\ upCreated /\ pc = "done"

\* forward_data has returned in thread t
LoopExited(t) == tpc[t] = "done"

\* C8: whenever one forwarding loop has terminated both endpoints are
\* closed, the other loop then eventually terminates as well, and the
\* handler leaves the relay (returns) only after both loops have exited.
C8_RelayTerminatesTogether ==
    /\ [](\A t \in Threads :
            LoopExited(t) => (Closed("client") /\ Closed("upstream")))
    /\ [](pc = "done" /\ RelayStarted => \A t \in Threads : LoopExited(t))
    /\ \A t \in Threads :
          (LoopExited(t) /\ pc \in {"join_t1", "join_t2"})
             ~> (\A u \in Threads : LoopExited(u))

\* The safety half of C8 holds of the code: a loop that has exited has
\* closed both endpoints, and the handler returns only after both exited.
RelayClosesBothAndJoins ==
    /\ \A t \in Threads :
          LoopExited(t) => (Closed("client") /\ Closed("upstream"))
    /\ pc = "done" /\ RelayStarted => \A t \in Threads : LoopExited(t)

\* C9: in each relay direction the bytes written to the destination are at
\* every moment a prefix of the bytes read from the source, what has been
\* read but not written is the tail of the one chunk the loop holds (at
\* most 4096 bytes), nothing is in flight while the loop is reading, and
\* what the loop wrote is what the destination socket received last.
C9_RelayPreservesOrder ==
    \A t \in Threads :
        /\ IsPrefix(relayWritten[t], relayRead[t])
        /\ Len(data[t]) <= BufSize
        /\ \E k \in 0..Len(data[t]) :
              relayRead[t] = relayWritten[t] \o DropFirst(data[t], k)
        /\ tpc[t] \in {"recv", "in_recv"} => relayRead[t] = relayWritten[t]
        /\ \E k \in 0..Len(wire[Dest(t)]) :
              DropFirst(wire[Dest(t)], k) = relayWritten[t]

\* C9 witness: both loops have read and written two chunks each
C9_Witness ==
    \A t \in Threads : Len(relayWritten[t]) >= 2 /\ relayRead[t] = relayWritten[t]

\* C10: for a CONNECT request whose upstream sent a complete response head,
\* the handler has written exactly the bytes received from the upstream to
\* the client before it closes a socket or starts a forwarding loop; for a
\* 407 response no loop is ever started and the handler returns with both
\* sockets closed.
C10_ResponseRelayedBeforeCloseOrRelay ==
    /\ (~raised /\ pc # "except" /\ (RelayStarted \/ Closed("client") \/ Closed("upstream"))
        /\ connected /\ IsConnect(first_line) /\ Contains(response, Terminator)) =>
          IsPrefix(response, wire["client"])
    /\ (PastStatusCheck /\ Contains(response, Terminator)
        /\ StatusCode = <<52, 48, 55>>) =>
          /\ ~RelayStarted
          /\ pc = "done" => (Closed("client") /\ Closed("upstream"))

\* the request went down the plain (non-CONNECT) branch
PlainBranch == lines # <<>> /\ ~IsConnect(first_line)
\* the plain branch has run to its end and handle_client has returned
PlainReturned == PlainBranch /\ pc = "done" /\ ~raised /\ connected

\* C11: for a plain request the bytes written to the client are at every
\* moment a prefix of the bytes received from the upstream, in order and
\* unmodified: all of them whenever the handler is not holding a chunk, and
\* all but the chunk it holds otherwise; the handler leaves the loop only
\* at the upstream's end-of-stream, and when it has returned it has closed
\* the client and the upstream socket.
C11_PlainResponseForwarded ==
    PlainBranch =>
        /\ IsPrefix(wire["client"], received["upstream"])
        /\ pc = "forward_send" => received["upstream"] = wire["client"] \o chunk
        /\ (pc \in {"forward_recv", "plain_close_client", "plain_close_upstream"}
            \/ PlainReturned) => wire["client"] = received["upstream"]
        /\ (pc \in {"plain_close_client", "plain_close_upstream"} \/ PlainReturned) =>
              (peerClosed["upstream"] /\ inbox["upstream"] = <<>>)
        /\ PlainReturned => (closeCalls["client"] = 1 /\ closeCalls["upstream"] = 1)

\* C11 witness: a plain request whose response arrived in several chunks
\* was forwarded whole, and the handler has returned
C11_Witness ==
    /\ PlainReturned
    /\ wire["client"] = Resp200 \o UpData(MaxUpData)

\* The liveness half of C11: once the upstream has closed, a handler in the
\* plain branch returns.
PlainForwardTerminates ==
    (PlainBranch /\ pc \in {"forward_recv", "forward_send"} /\ peerClosed["upstream"])
        ~> (pc = "done" /\ Closed("client"))

\* "Basic dTpw": the Basic value of username "u" and password "p"
BasicUP == <<66, 97, 115, 105, 99, 32, 100, 84, 112, 119>>
\* "Basic " + base64(username + ":" + password)
BasicOf(username, password) ==
    StrBasic \o B64Encode(username \o <<58>> \o password)

\* C13: once the handler has built its credential (line 85), the value is
\* None when the target's username or password is absent (None), and for a
\* username and a password that are both present it is "Basic " followed
\* by base64 of "username:password" ("Basic dTpw" for u and p).
C13_EncoderContract ==
    connected =>
        LET username == upstream_proxy.username
            password == upstream_proxy.password
        IN /\ (username = None \/ password = None) => auth_header = None
           /\ (username # None /\ password # None) =>
                 auth_header = Some(BasicOf(username[1], password[1]))
           /\ (username = Some(<<117>>) /\ password = Some(<<112>>)) =>
                 auth_header = Some(BasicUP)

\* The divergence of C13 is confined to empty strings: for a username and
\* a password that are absent or non-empty the encoder does what C13 says.
EncoderContractForNonEmpty ==
    connected =>
        LET username == upstream_proxy.username
            password == upstream_proxy.password
        IN /\ (username = None \/ password = None) => auth_header = None
           /\ (~Falsy(username) /\ ~Falsy(password)) =>
                 auth_header = Some(BasicOf(username[1], password[1]))
           /\ (username = Some(<<117>>) /\ password = Some(<<112>>)) =>
                 auth_header = Some(BasicUP)

\* the state of the connection handler, by its position in handle_client;
\* Dispatching (the parse of lines 73-78) is the end of the step that
\* completes the head, between AwaitingRequestHead and Dial
Phase ==
    IF pc = "idle" THEN "NotStarted"
    ELSE IF pc = "read_request" THEN "AwaitingRequestHead"
    ELSE IF pc = "dial" THEN "Dial"
    ELSE IF pc = "send_request"
         THEN (IF IsConnect(first_line) THEN "ConnectTunnel" ELSE "PlainForward")
    ELSE IF pc \in {"read_response", "send_response", "check_status",
                    "close_client", "close_upstream"} THEN "ConnectTunnel"
    ELSE IF pc \in {"forward_recv", "forward_send", "plain_close_client",
                    "plain_close_upstream"} THEN "PlainForward"
    ELSE IF pc \in {"start_t2", "join_t1", "join_t2"} THEN "Relaying"
    ELSE "Closed"
Rank(phase) ==
    CASE phase = "NotStarted" -> 0
      [] phase = "AwaitingRequestHead" -> 1
      [] phase = "Dial" -> 2
      [] phase \in {"ConnectTunnel", "PlainForward"} -> 3
      [] phase = "Relaying" -> 4
      [] phase = "Closed" -> 5

\* C15: every step of a handler keeps its state or moves it forward in the
\* order AwaitingRequestHead, Dial, ConnectTunnel or PlainForward, Relaying,
\* Closed; the branch once taken is never exchanged for the other, Relaying
\* is entered from ConnectTunnel only, bytes are written to the upstream
\* only after the dial has succeeded, and a handler that has returned
\* takes no further step.
C15_StatesInOrder ==
    [][/\ Rank(Phase') >= Rank(Phase)
       /\ Phase \in {"ConnectTunnel", "PlainForward"} =>
             Phase' \in {Phase, "Relaying", "Closed"}
       /\ Phase' = "Relaying" => Phase \in {"ConnectTunnel", "Relaying"}
       /\ Phase = "Dial" => Phase' \in {"Dial", "ConnectTunnel", "PlainForward", "Closed"}
       /\ wire'["upstream"] # wire["upstream"] => connected
       /\ pc = "done" => pc' = "done"]_vars

\* C15 witness: a handler that went through ConnectTunnel and Relaying has
\* returned
C15_Witness ==
    /\ pc = "done" /\ ~raised
    /\ \A t \in Threads : LoopExited(t)

\* the method of the client's request line: its bytes before the first space
Method == Split(ClientLines[1], <<32>>)[1]

\* C16: a request is handled by the ConnectTunnel branch exactly when the
\* method of its request line is CONNECT, and by the PlainForward branch
\* for every other method, also one that begins with the letters CONNECT.
C16_ConnectIffMethodConnect ==
    /\ Phase \in {"ConnectTunnel", "Relaying"} => Method = StrCONNECT
    /\ Phase = "PlainForward" => Method # StrCONNECT

\* The divergence of C16 is confined to methods that begin with CONNECT:
\* the branch is ConnectTunnel exactly when the request line does.
ConnectIffLineStartsWithConnect ==
    /\ Phase \in {"ConnectTunnel", "Relaying"} => StartsWith(ClientLines[1], StrCONNECT)
    /\ Phase = "PlainForward" => ~StartsWith(ClientLines[1], StrCONNECT)

\* C17: whenever handle_client has returned, by whichever path, the client
\* socket has been closed at least once.
C17_ClientClosedOnReturn ==
    pc = "done" => closeCalls["client"] >= 1

\* C17 witness: the handler has returned through its exception handler
\* after a successful dial
C17_Witness == pc = "done" /\ raised /\ connected

\* C18: once the relay has started, the stream written to the upstream is
\* the rewritten head, the client bytes buffered after the request
\* terminator, then the bytes written by the client-to-upstream loop; the
\* stream written to the client is every byte the handshake received from
\* the upstream (bytes after the response terminator included), then the
\* bytes written by the upstream-to-client loop; and every byte received
\* from either socket is in the handshake's buffer or was read by the loop.
C18_NoByteLostAtHandOver ==
    RelayStarted =>
        /\ body = DropFirst(request, Find(request, Terminator) + 4)
        /\ wire["upstream"] =
              Utf8Encode(Join(new_headers(lines, auth_header), CRLF) \o Terminator)
              \o body \o relayWritten["t1"]
        /\ wire["client"] = response \o relayWritten["t2"]
        /\ received["client"] = request \o relayRead["t1"]
        /\ received["upstream"] = response \o relayRead["t2"]

\* C18 witness: bytes were buffered after both terminators and both loops
\* have relayed bytes
C18_Witness ==
    /\ RelayStarted
    /\ body # <<>>
    /\ Contains(response, Terminator)
    /\ Len(response) > Find(response, Terminator) + 4
    /\ \A t \in Threads : relayWritten[t] # <<>>

\* C19: in the plain branch the bytes received from the client are the
\* bytes of the request read before dispatch and no more, the bytes
\* written to the upstream are (a prefix of) the rewritten head followed by
\* the buffered body, and no forwarding loop is ever started.
C19_PlainNeverReadsClientAgain ==
    PlainBranch =>
        /\ received["client"] = request
        /\ IsPrefix(wire["upstream"], new_request(lines, body, auth_header))
        /\ Phase = "PlainForward" /\ pc # "send_request" =>
              wire["upstream"] = new_request(lines, body, auth_header)
        /\ ~RelayStarted

\* C19 witness: a plain request was answered and the handler has returned
\* while bytes of the client were still unread
C19_Witness ==
    /\ PlainReturned
    /\ inbox["client"] # <<>>
    /\ wire["client"] # <<>>

\* the threads that are in, or about to make, a recv on socket s
Readers(s) ==
    {th \in {"handler"} :
        \/ s = "client" /\ pc = "read_request"
        \/ s = "upstream" /\ pc \in {"read_response", "forward_recv"}}
    \cup {t \in Threads : Source(t) = s /\ tpc[t] \in {"recv", "in_recv"}}
\* the threads that are in, or about to make, a sendall on socket s
Writers(s) ==
    {th \in {"handler"} :
        \/ s = "upstream" /\ pc = "send_request"
        \/ s = "client" /\ pc \in {"send_response", "forward_send"}}
    \cup {t \in Threads : Dest(t) = s /\ tpc[t] = "send"}

\* C20: each socket has at most one reader and at most one writer at any
\* moment; the loops are started only when the handler has written the
\* whole upstream response to the client and from then on the handler
\* neither reads nor writes; a reader of the client or writer of the
\* upstream is the handler or t1, a reader of the upstream or writer of the
\* client is the handler or t2.
C20_OneReaderOneWriter ==
    /\ \A s \in Socks : Cardinality(Readers(s)) <= 1 /\ Cardinality(Writers(s)) <= 1
    /\ RelayStarted =>
          /\ pc \in {"start_t2", "join_t1", "join_t2", "done"}
          /\ IsPrefix(response, wire["client"])
    /\ Readers("client") \cup Writers("upstream") \subseteq {"handler", "t1"}
    /\ Readers("upstream") \cup Writers("client") \subseteq {"handler", "t2"}

\* C20 witness: both loops hold a chunk to send at the same moment
C20_Witness == tpc["t1"] = "send" /\ tpc["t2"] = "send"

\* some connection's handler has ended in a failure
SomeConnFailed == raised \/ \E c \in OtherConns : others[c].raised

\* C12: a step of one connection (a failure included) changes no state of
\* another connection and none of the accept loop: a step that changes a
\* later connection leaves the first connection, every other later
\* connection and main's position alone; a step of the first connection's
\* handler or loops leaves every later connection and main alone; and
\* after a connection's failure the accept loop, unless interrupted, is
\* still accepting.
C12_FailuresAreLocal ==
    /\ [][/\ \A c \in OtherConns :
               others'[c] # others[c] =>
                  /\ connVars' = connVars
                  /\ \A d \in OtherConns \ {c} : others'[d] = others[d]
                  /\ mainpc' = mainpc
                  /\ listening' = listening
                  /\ exitStatus' = exitStatus
          /\ (pc # "idle" /\ connVars' # connVars) =>
                (others' = others /\ mainVars' = mainVars)]_vars
    /\ [](SomeConnFailed /\ exitStatus = None =>
            /\ mainpc = "accept" /\ listening
            /\ accepted < MaxConns => ENABLED Accept)

\* C12 witness: the first connection and the second have failed while the
\* third is relaying, and the accept loop is running
C12_Witness ==
    /\ pc = "done" /\ raised
    /\ others[2].raised
    /\ others[3].phase = "relay"
    /\ mainpc = "accept" /\ listening

\* the URL the environment configures: HTTPS_PROXY, or else HTTP_PROXY
ConfiguredUrl ==
    IF ~Falsy(environ.HTTPS_PROXY) THEN environ.HTTPS_PROXY ELSE environ.HTTP_PROXY
\* start-up has failed, or has not got as far as listening
NeverServes ==
    /\ ~listening /\ accepted = 0 /\ pc = "idle"
    /\ mainpc \in {"start", "parse", "exit"}
    /\ mainpc = "exit" => exitStatus = Some(1)

\* C14: when the configured URL is missing or empty, cannot be parsed, or
\* has no host, start-up ends in a failure exit without ever listening or
\* accepting, and no connection is ever served with a target without a host.
C14_BadUrlIsFatal ==
    /\ (\/ Falsy(ConfiguredUrl)
        \/ UrlRaises(ConfiguredUrl[1])
        \/ UrlHostname(ConfiguredUrl[1]) = None) => NeverServes
    /\ (listening \/ accepted > 0) => upstream_proxy.host # None

\* The divergence of C14 is confined to URLs without a host: a missing or
\* empty URL and a URL that cannot be parsed end start-up with status 1.
MissingOrUnparseableUrlIsFatal ==
    (Falsy(ConfiguredUrl) \/ UrlRaises(ConfiguredUrl[1])) => NeverServes

====
